---------------------------- MODULE Spec2Model ----------------------------
(***************************************************************************)
(* Model of src/app.py: the /api/fix request handler (fix_code), the reply *)
(* parser inside call_gemini_to_fix_code and the merge of the parsed       *)
(* replacements into the archive.                                          *)
(*                                                                         *)
(* Text is a sequence of one-character strings, so that str.split,         *)
(* str.rsplit, str.strip and the "in" test are computed character by       *)
(* character.  A Python dict is a sequence of <<key, value>> pairs with    *)
(* distinct keys, in insertion order.                                      *)
(*                                                                         *)
(* The prompt text (lines 39-70) is only handed to the external model,     *)
(* whose reply is any text at all; it is not part of the state.            *)
(***************************************************************************)
EXTENDS Integers, Sequences, FiniteSets

VARIABLES
    method,           \* request.method
    hasFilesPart,     \* 'files' in request.files
    files,            \* request.files.getlist('files'): the uploaded parts
    pc,               \* position of the handler
    original_files,   \* fix_code: dict path -> decoded content
    outcome,          \* model.generate_content: "none", "raised" or "replied"
    modelCalls,       \* number of model.generate_content calls issued
    ai_response_text, \* response.text
    file_blocks,      \* ai_response_text.split("START_FILE: ")
    idx,              \* position of the loop "for block in file_blocks"
    fixed_files,      \* call_gemini_to_fix_code: dict path -> code content
    fixed_files_map,  \* fix_code: what call_gemini_to_fix_code returned
    status,           \* HTTP status of the response, 0 while there is none
    body,             \* kind and JSON payload of the response
    archive,          \* entries written by zf.writestr, in order
    sent              \* how the reply was assembled (blocks), when it was

vars == << method, hasFilesPart, files, pc, original_files, outcome, modelCalls,
           ai_response_text, file_blocks, idx, fixed_files, fixed_files_map,
           status, body, archive, sent >>

-----------------------------------------------------------------------------
(* Bounds *)

MaxFiles == 2

MaxPieces == 5

MaxBlocks == 2

-----------------------------------------------------------------------------
(* Text *)

NL == "\n"

Whitespace == {" ", NL}

START_FILE == << "S", "T", "A", "R", "T", "_", "F", "I", "L", "E", ":", " " >>

END_FILE == << "E", "N", "D", "_", "F", "I", "L", "E" >>

ERROR_KEY == << "e", "r", "r", "o", "r" >>

\* pat occurs in s at position i
MatchAt(s, pat, i) ==
    /\ i >= 1
    /\ i + Len(pat) - 1 <= Len(s)
    /\ \A k \in 1..Len(pat) : s[i + k - 1] = pat[k]

RECURSIVE FindFrom(_, _, _)
FindFrom(s, pat, i) ==
    IF i + Len(pat) - 1 > Len(s) THEN 0
    ELSE IF MatchAt(s, pat, i) THEN i
    ELSE FindFrom(s, pat, i + 1)

\* str.find: the lowest position of pat in s, 0 when there is none
Find(s, pat) == FindFrom(s, pat, 1)

RECURSIVE RFindFrom(_, _, _)
RFindFrom(s, pat, i) ==
    IF i < 1 THEN 0
    ELSE IF MatchAt(s, pat, i) THEN i
    ELSE RFindFrom(s, pat, i - 1)

\* str.rfind: the highest position of pat in s, 0 when there is none
RFind(s, pat) == RFindFrom(s, pat, Len(s) - Len(pat) + 1)

\* pat in s
Contains(s, pat) == Find(s, pat) # 0

SplitOnceAt(s, pat, i) ==
    IF i = 0
    THEN << s >>
    ELSE << SubSeq(s, 1, i - 1), SubSeq(s, i + Len(pat), Len(s)) >>

\* s.split(pat, 1)
SplitOnce(s, pat) == SplitOnceAt(s, pat, Find(s, pat))

RECURSIVE SplitParts(_, _)
SplitParts(parts, pat) ==
    IF Len(parts) = 1
    THEN parts
    ELSE << parts[1] >> \o SplitParts(SplitOnce(parts[2], pat), pat)

\* s.split(pat): left to right, the separator consumed
Split(s, pat) == SplitParts(SplitOnce(s, pat), pat)

RSplitHeadAt(s, i) == IF i = 0 THEN s ELSE SubSeq(s, 1, i - 1)

\* s.rsplit(pat, 1)[0]
RSplitHead(s, pat) == RSplitHeadAt(s, RFind(s, pat))

RECURSIVE FirstKept(_, _)
FirstKept(s, i) ==
    IF i > Len(s) THEN i
    ELSE IF s[i] \in Whitespace THEN FirstKept(s, i + 1)
    ELSE i

RECURSIVE LastKept(_, _)
LastKept(s, i) ==
    IF i < 1 THEN 0
    ELSE IF s[i] \in Whitespace THEN LastKept(s, i - 1)
    ELSE i

\* s.strip()
Strip(s) == SubSeq(s, FirstKept(s, 1), LastKept(s, Len(s)))

RECURSIVE Flatten(_)
Flatten(ss) == IF ss = << >> THEN << >> ELSE Head(ss) \o Flatten(Tail(ss))

-----------------------------------------------------------------------------
(* Dicts *)

Keys(d) == { d[i][1] : i \in DOMAIN d }

\* d[k] = v
DictSet(d, k, v) ==
    IF k \in Keys(d)
    THEN [ i \in DOMAIN d |-> IF d[i][1] = k THEN << k, v >> ELSE d[i] ]
    ELSE Append(d, << k, v >>)

\* d.get(k, default)
DictGet(d, k, default) ==
    IF k \in Keys(d)
    THEN d[CHOOSE i \in DOMAIN d : d[i][1] = k][2]
    ELSE default

-----------------------------------------------------------------------------
(* The reply parser: call_gemini_to_fix_code, lines 80-101 *)

\* block.split("\n", 1)
SplitLine(block) == SplitOnce(block, << NL >>)

\* file_path = parts[0].strip()
FilePath(parts) == Strip(parts[1])

HasEndFileAlways(rest) == TRUE

\* "END_FILE" in parts[1]
HasEndFile(rest) == Contains(rest, END_FILE)

CodeContentFirst(rest) == Strip(SplitOnce(rest, END_FILE)[1])

CodeContentRaw(rest) == RSplitHead(rest, END_FILE)

\* code_content = parts[1].rsplit("END_FILE", 1)[0].strip()
CodeContent(rest) == Strip(RSplitHead(rest, END_FILE))

\* one iteration of "for block in file_blocks"
ParseBlock(fixed, block) ==
    IF Strip(block) = << >>
    THEN fixed                                      \* continue
    ELSE LET parts == SplitLine(block)
         IN  IF Len(parts) < 2
             THEN fixed                             \* continue
             ELSE IF HasEndFile(parts[2])
                  THEN DictSet(fixed, FilePath(parts), CodeContent(parts[2]))
                  ELSE fixed                        \* warning only

RECURSIVE ParseBlocks(_, _)
ParseBlocks(fixed, blocks) ==
    IF blocks = << >>
    THEN fixed
    ELSE ParseBlocks(ParseBlock(fixed, Head(blocks)), Tail(blocks))

\* the whole parse of a reply text
ParseReply(text) == ParseBlocks(<< >>, Split(text, START_FILE))

-----------------------------------------------------------------------------
(* The merge: fix_code, lines 136-142 *)

FinalContentOriginal(fixed, path, content) == content

\* final_content = fixed_files_map.get(path, content)
FinalContent(fixed, path, content) == DictGet(fixed, path, content)

RECURSIVE ZipEntries(_, _)
\* for path, content in original_files.items(): zf.writestr(path, final_content)
ZipEntries(original, fixed) ==
    IF original = << >>
    THEN << >>
    ELSE << << Head(original)[1],
               FinalContent(fixed, Head(original)[1], Head(original)[2]) >> >>
         \o ZipEntries(Tail(original), fixed)

ZipEntriesWithInvented(original, fixed) ==
    ZipEntries(original, fixed)
    \o SelectSeq(fixed, LAMBDA e : e[1] \notin Keys(original))

\* the entries of the archive built by the "with zipfile.ZipFile" block
BuildZip(original, fixed) == ZipEntries(original, fixed)

NoErrorKey(d) == FALSE

\* "error" in fixed_files_map
HasErrorKey(d) == ERROR_KEY \in Keys(d)

-----------------------------------------------------------------------------
(* Requests *)

Uploads ==
    { [filename |-> << "a" >>, data |-> << "x" >>, utf8 |-> TRUE],
      [filename |-> << "b" >>, data |-> << "y" >>, utf8 |-> TRUE],
      [filename |-> << "a" >>, data |-> << >>,     utf8 |-> FALSE] }

\* the part a browser sends for a file input with no file selected
EmptyPart == [filename |-> << >>, data |-> << >>, utf8 |-> TRUE]

SeqsUpTo(S, n) == UNION { [1..k -> S] : k \in 0..n }

\* 'files' in request.files holds exactly when getlist('files') is non-empty
Requests ==
    { r \in [method : {"OPTIONS", "POST"}, hasFilesPart : BOOLEAN,
             files : SeqsUpTo(Uploads, MaxFiles) \cup { << EmptyPart >> }] :
        r.hasFilesPart <=> r.files # << >> }

RECURSIVE ReadAll(_, _)
\* original_files[file.filename] = file.read().decode('utf-8'), for each file
ReadAll(d, fs) ==
    IF fs = << >>
    THEN d
    ELSE ReadAll(DictSet(d, Head(fs).filename, Head(fs).data), Tail(fs))

Decodable(fs) == \A i \in DOMAIN fs : fs[i].utf8

NoResponse == [kind |-> "none", json |-> << >>, headers |-> {}]

CorsHeaders ==
    { << "Access-Control-Allow-Origin", "*" >>,
      << "Access-Control-Allow-Headers", "Content-Type,Baggage,Sentry-Trace" >>,
      << "Access-Control-Allow-Methods", "POST, OPTIONS" >> }

InitWith(r) ==
    /\ method = r.method
    /\ hasFilesPart = r.hasFilesPart
    /\ files = r.files
    /\ pc = "dispatch"
    /\ original_files = << >>
    /\ outcome = "none"
    /\ modelCalls = 0
    /\ ai_response_text = << >>
    /\ file_blocks = << >>
    /\ idx = 0
    /\ fixed_files = << >>
    /\ fixed_files_map = << >>
    /\ status = 0
    /\ body = NoResponse
    /\ archive = << >>
    /\ sent = << >>

Init == \E r \in Requests : InitWith(r)

Respond(code, kind, json, headers) ==
    /\ status' = code
    /\ body' = [kind |-> kind, json |-> json, headers |-> headers]
    /\ pc' = "done"

-----------------------------------------------------------------------------
(* fix_code, lines 108-151 *)

\* lines 110-112 and 154-159
Preflight ==
    /\ pc = "dispatch"
    /\ method = "OPTIONS"
    /\ Respond(200, "json", << << << "success" >>, << "true" >> >> >>, CorsHeaders)
    /\ UNCHANGED << method, hasFilesPart, files, original_files, outcome,
                    modelCalls, ai_response_text, file_blocks, idx, fixed_files,
                    fixed_files_map, archive, sent >>

\* lines 115-116
RejectNoFiles ==
    /\ pc = "dispatch"
    /\ method = "POST"
    /\ ~hasFilesPart
    /\ Respond(400, "json", << << ERROR_KEY, << "No files part" >> >> >>, {})
    /\ UNCHANGED << method, hasFilesPart, files, original_files, outcome,
                    modelCalls, ai_response_text, file_blocks, idx, fixed_files,
                    fixed_files_map, archive, sent >>

\* line 126 raises UnicodeDecodeError, which nothing catches
DecodeError ==
    /\ pc = "dispatch"
    /\ method = "POST"
    /\ hasFilesPart
    /\ ~Decodable(files)
    /\ Respond(500, "html", << >>, {})
    /\ UNCHANGED << method, hasFilesPart, files, original_files, outcome,
                    modelCalls, ai_response_text, file_blocks, idx, fixed_files,
                    fixed_files_map, archive, sent >>

\* lines 118-129 and 35-36: the files are read; with none, call_gemini_to_fix_code
\* returns {} at once
ReadFiles ==
    /\ pc = "dispatch"
    /\ method = "POST"
    /\ hasFilesPart
    /\ Decodable(files)
    /\ original_files' = ReadAll(<< >>, files)
    /\ pc' = IF original_files' = << >> THEN "check" ELSE "call"
    /\ UNCHANGED << method, hasFilesPart, files, outcome, modelCalls,
                    ai_response_text, file_blocks, idx, fixed_files,
                    fixed_files_map, status, body, archive, sent >>

\* lines 76-78 raise, lines 103-105 return the error dict
GeminiRaises ==
    /\ pc = "call"
    /\ modelCalls' = modelCalls + 1
    /\ outcome' = "raised"
    /\ fixed_files_map' = << << ERROR_KEY, << "Error calling Gemini: e" >> >> >>
    /\ pc' = "check"
    /\ UNCHANGED << method, hasFilesPart, files, original_files, ai_response_text,
                    file_blocks, idx, fixed_files, status, body, archive, sent >>

\* lines 77-82: the model replies with text, which is split into blocks
Replied(text, blocks) ==
    /\ pc = "call"
    /\ modelCalls' = modelCalls + 1
    /\ outcome' = "replied"
    /\ ai_response_text' = text
    /\ fixed_files' = << >>
    /\ file_blocks' = Split(text, START_FILE)
    /\ idx' = 1
    /\ sent' = blocks
    /\ pc' = "parse"
    /\ UNCHANGED << method, hasFilesPart, files, original_files, fixed_files_map,
                    status, body, archive >>

\* lines 84-98: one iteration of the loop
ParseStep ==
    /\ pc = "parse"
    /\ idx <= Len(file_blocks)
    /\ fixed_files' = ParseBlock(fixed_files, file_blocks[idx])
    /\ idx' = idx + 1
    /\ UNCHANGED << method, hasFilesPart, files, pc, original_files, outcome,
                    modelCalls, ai_response_text, file_blocks, fixed_files_map,
                    status, body, archive, sent >>

\* lines 100-101 and 129
ParseReturn ==
    /\ pc = "parse"
    /\ idx > Len(file_blocks)
    /\ fixed_files_map' = fixed_files
    /\ pc' = "check"
    /\ UNCHANGED << method, hasFilesPart, files, original_files, outcome,
                    modelCalls, ai_response_text, file_blocks, idx, fixed_files,
                    status, body, archive, sent >>

\* lines 131-132
RespondError ==
    /\ pc = "check"
    /\ HasErrorKey(fixed_files_map)
    /\ Respond(500, "json", fixed_files_map, {})
    /\ UNCHANGED << method, hasFilesPart, files, original_files, outcome,
                    modelCalls, ai_response_text, file_blocks, idx, fixed_files,
                    fixed_files_map, archive, sent >>

\* lines 134-151
SendArchive ==
    /\ pc = "check"
    /\ ~HasErrorKey(fixed_files_map)
    /\ archive' = BuildZip(original_files, fixed_files_map)
    /\ Respond(200, "zip", << >>, {})
    /\ UNCHANGED << method, hasFilesPart, files, original_files, outcome,
                    modelCalls, ai_response_text, file_blocks, idx, fixed_files,
                    fixed_files_map, sent >>

-----------------------------------------------------------------------------
(* The model's reply: any text *)

Pieces == { START_FILE, END_FILE, << NL >>, << "a" >>, ERROR_KEY }

GeminiReplies ==
    /\ pc = "call"
    /\ \E ps \in SeqsUpTo(Pieces, MaxPieces) : Replied(Flatten(ps), << >>)

Next ==
    \/ Preflight
    \/ RejectNoFiles
    \/ DecodeError
    \/ ReadFiles
    \/ GeminiRaises
    \/ GeminiReplies
    \/ ParseStep
    \/ ParseReturn
    \/ RespondError
    \/ SendArchive

Spec == Init /\ [][Next]_vars

-----------------------------------------------------------------------------
(* The model's reply, assembled from blocks of the protocol of lines 63-67 *)

BlockPaths == { << "a" >>, << "b" >>, << " ", "b" >> }

BlockContents ==
    { << "x" >>, << " ", "x", NL >>, END_FILE \o << "x" >>, START_FILE \o << "b" >> }

\* START_FILE: <path> / <content> / END_FILE
WellFormedBlocks ==
    [path : BlockPaths, content : BlockContents, ok : {TRUE}, nl : {TRUE}]

\* blocks whose text after the marker holds no END_FILE
MalformedBlocks ==
    { [path |-> << "c" >>, content |-> << >>,     ok |-> FALSE, nl |-> FALSE],
      [path |-> << "c" >>, content |-> << "x" >>, ok |-> FALSE, nl |-> TRUE],
      [path |-> << "a" >>, content |-> << "x" >>, ok |-> FALSE, nl |-> TRUE],
      [path |-> << >>,     content |-> << >>,     ok |-> FALSE, nl |-> TRUE] }

BlockText(b) ==
    IF b.ok
    THEN START_FILE \o b.path \o << NL >> \o b.content \o << NL >> \o END_FILE
    ELSE START_FILE \o b.path \o (IF b.nl THEN << NL >> \o b.content ELSE << >>)

ReplyOf(bs) == Flatten([ i \in DOMAIN bs |-> BlockText(bs[i]) ])

InsertAt(bs, i, b) == SubSeq(bs, 1, i - 1) \o << b >> \o SubSeq(bs, i, Len(bs))

\* up to MaxBlocks well-formed blocks, with at most one malformed block among them
BlockSeqs ==
    LET oks == SeqsUpTo(WellFormedBlocks, MaxBlocks)
    IN  oks \cup { InsertAt(bs, i, b) :
                     << bs, i, b >> \in { t \in oks \X (1..(MaxBlocks + 1)) \X MalformedBlocks :
                                            t[2] <= Len(t[1]) + 1 } }

GeminiRepliesBlocks ==
    /\ pc = "call"
    /\ \E bs \in BlockSeqs : Replied(ReplyOf(bs), bs)

\* the requests with at most one named file
InitBlocks ==
    \E r \in { q \in Requests : Len(q.files) <= 1 /\ q.files # << EmptyPart >> } :
        InitWith(r)

NextBlocks ==
    \/ Preflight
    \/ RejectNoFiles
    \/ DecodeError
    \/ ReadFiles
    \/ GeminiRaises
    \/ GeminiRepliesBlocks
    \/ ParseStep
    \/ ParseReturn
    \/ RespondError
    \/ SendArchive

SpecBlocks == InitBlocks /\ [][NextBlocks]_vars

-----------------------------------------------------------------------------
(* Properties *)

Range(d) == { d[i] : i \in DOMAIN d }

ArchivePaths == { archive[i][1] : i \in DOMAIN archive }

UploadedPaths == { files[i].filename : i \in DOMAIN files }

ArchiveSent == pc = "done" /\ body.kind = "zip"

\* C1: the paths written to the archive are exactly the paths of the original
\* file set, each once: none is missing, and no path that only the replacement
\* set holds is written.
C1_Totality ==
    ArchiveSent =>
        /\ ArchivePaths = Keys(original_files)
        /\ ArchivePaths = UploadedPaths
        /\ Len(archive) = Cardinality(Keys(original_files))

C1_Witness ==
    /\ ArchiveSent
    /\ Len(archive) >= 2
    /\ \E k \in Keys(fixed_files_map) : k \notin Keys(original_files)

\* C2: for every original path p, the content written for p is the replacement
\* set's content for p when it holds p, and the original content otherwise.
C2_FixedOrOriginal ==
    ArchiveSent =>
        \A e \in Range(original_files) :
            /\ e[1] \in ArchivePaths
            /\ \A w \in Range(archive) :
                   w[1] = e[1] =>
                       IF e[1] \in Keys(fixed_files_map)
                       THEN w \in Range(fixed_files_map)
                       ELSE w = e

C2_Witness ==
    /\ ArchiveSent
    /\ \E e \in Range(original_files) :
           /\ e[1] \in Keys(fixed_files_map)
           /\ e \notin Range(archive)
    /\ \E e \in Range(original_files) :
           /\ e[1] \notin Keys(fixed_files_map)
           /\ e \in Range(archive)

Parsed == outcome = "replied" /\ pc \in {"check", "done"}

AllWellFormed == \A i \in DOMAIN sent : sent[i].ok

DistinctPaths ==
    \A i, j \in DOMAIN sent : i # j => sent[i].path # sent[j].path

\* exactly one entry per wrapped file: its path, and its content trimmed
RoundTrip ==
    /\ Len(fixed_files_map) = Len(sent)
    /\ Keys(fixed_files_map) = { sent[i].path : i \in DOMAIN sent }
    /\ \A i \in DOMAIN sent :
           << sent[i].path, Strip(sent[i].content) >> \in Range(fixed_files_map)

\* every path is one non-empty line without surrounding whitespace or marker
PlainPaths ==
    \A i \in DOMAIN sent :
        /\ sent[i].path # << >>
        /\ Strip(sent[i].path) = sent[i].path
        /\ ~Contains(sent[i].path, << NL >>)
        /\ ~Contains(sent[i].path, START_FILE)

\* no content holds the marker
MarkerFree == \A i \in DOMAIN sent : ~Contains(sent[i].content, START_FILE)

\* C3, as claimed: N files with distinct paths (plain one-line names) and any
\* contents, each wrapped in a START_FILE:/END_FILE block, are parsed into
\* exactly N entries with the original paths and the trimmed original contents.
C3_RoundTripAnyContent ==
    (Parsed /\ AllWellFormed /\ DistinctPaths /\ PlainPaths) => RoundTrip

\* C3, amended: the same, for contents that do not contain the marker
\* "START_FILE: ".
C3_RoundTrip ==
    (Parsed /\ AllWellFormed /\ DistinctPaths /\ PlainPaths /\ MarkerFree)
        => RoundTrip

C3_Witness ==
    /\ Parsed /\ AllWellFormed /\ DistinctPaths /\ PlainPaths /\ MarkerFree
    /\ Len(sent) >= 2
    /\ \E i \in DOMAIN sent : Contains(sent[i].content, END_FILE)
    /\ \E i \in DOMAIN sent : Strip(sent[i].content) # sent[i].content

Malformed == { i \in DOMAIN sent : ~sent[i].ok }

WithoutMalformed == SelectSeq(sent, LAMBDA b : b.ok)

\* C4: when one block of the reply has no END_FILE, the parser returns (no
\* error) exactly the entries it returns for the reply without that block: the
\* block adds no entry and changes no other block's entry.
C4_MalformedTolerance ==
    (Parsed /\ Cardinality(Malformed) = 1) =>
        /\ fixed_files_map = ParseReply(ReplyOf(WithoutMalformed))
        /\ ERROR_KEY \notin Keys(fixed_files_map)

C4_Witness ==
    /\ Parsed
    /\ Len(sent) = 3
    /\ Malformed = {2}
    /\ sent[2].nl /\ sent[2].content # << >>
    /\ Len(fixed_files_map) = 2

\* C5: when the model call raises, the parser never runs, no archive entry is
\* written, and the request ends with status 500 and a JSON body that has an
\* "error" field.
C5_UpstreamFailure ==
    outcome = "raised" =>
        /\ file_blocks = << >> /\ idx = 0 /\ fixed_files = << >>
        /\ pc # "parse"
        /\ archive = << >>
        /\ pc = "done" =>
               /\ status = 500
               /\ body.kind = "json"
               /\ ERROR_KEY \in Keys(body.json)

C5_Witness == outcome = "raised" /\ pc = "done" /\ status = 500

NoFilesSupplied ==
    \/ ~hasFilesPart
    \/ \A i \in DOMAIN files : files[i].filename = << >> /\ files[i].data = << >>

\* C6: a POST request that supplies no files (the 'files' part missing or empty)
\* ends with status 400, and no model call is issued during it.
C6_NoFilesRejected ==
    (method = "POST" /\ NoFilesSupplied) =>
        /\ modelCalls = 0
        /\ pc = "done" => status = 400

\* nothing but whitespace precedes the first marker of the reply
NoPreamble == file_blocks # << >> /\ Strip(file_blocks[1]) = << >>

\* C7: the parser's replacement set never holds an entry whose path is empty: a
\* fragment whose header line is empty once trimmed contributes no entry.  Stated
\* for the replies in which every fragment with text follows a marker.
C7_NoEmptyPath == NoPreamble => << >> \notin Keys(fixed_files)

\* C8: the text before the first START_FILE: marker contributes no entry: once
\* the first block of the split is processed, the replacement set is still empty.
C8_PreambleDiscarded == (pc = "parse" /\ idx = 2) => fixed_files = << >>

\* the block the loop has just processed, when it follows a marker
LastBlock == file_blocks[idx - 1]

LastHeader == SubSeq(LastBlock, 1, Find(LastBlock, << NL >>) - 1)

LastRest == SubSeq(LastBlock, Find(LastBlock, << NL >>) + 1, Len(LastBlock))

EndFileAt == { k \in 1..Len(LastRest) : MatchAt(LastRest, END_FILE, k) }

AfterMarkerWithEndFile ==
    /\ pc = "parse"
    /\ idx >= 3
    /\ Contains(LastBlock, << NL >>)
    /\ EndFileAt # {}

\* C9: for a block after a marker whose text after the first line break holds
\* END_FILE, the content recorded for its path is the text before the last
\* END_FILE, trimmed.
C9_LastEndFile ==
    AfterMarkerWithEndFile =>
        \E k \in EndFileAt :
            /\ \A j \in EndFileAt : j <= k
            /\ << Strip(LastHeader), Strip(SubSeq(LastRest, 1, k - 1)) >>
                   \in Range(fixed_files)

C9_Witness ==
    /\ AfterMarkerWithEndFile
    /\ Cardinality(EndFileAt) >= 2
    /\ LastHeader # << >>
    /\ \E k \in EndFileAt : k + Len(END_FILE) <= Len(LastRest)

\* C10: a POST request with at least one file, to which the model replies with
\* text, ends with status 200 and an archive of every original path, whatever
\* the text.  Stated for the replies in which every fragment with text follows a
\* marker.
C10_ReplyNeverFails ==
    (method = "POST" /\ files # << >> /\ outcome = "replied" /\ NoPreamble
        /\ pc = "done") =>
        /\ status = 200
        /\ body.kind = "zip"
        /\ Keys(original_files) \subseteq ArchivePaths

=============================================================================
